---- MODULE Spec2Model ----
(***************************************************************************)
(* A model of lightdash's query model and the layers around it:            *)
(*   - the field registry of packages/common (fieldId, isDimension,        *)
(*     getDimensions/getMeasures/getFields, filterableDimensionsOnly,      *)
(*     mapColumnTypeToLightdashType);                                      *)
(*   - the explorer state reducer of the frontend's ExplorerProvider and   *)
(*     the MetricQuery that useQueryResults builds from it;                *)
(*   - the provider's pristine state and the fetch of the Run query button;*)
(*   - the saved-query persistence of the backend (savedQueries.ts over    *)
(*     the schema of migration 20210728093219_saved_queries.ts);           *)
(*   - the query compiler, which the specification describes and the       *)
(*     sources do not hold;                                                *)
(*   - the string filter form of the frontend and its table of default     *)
(*     filters;                                                            *)
(*   - the start of the backend's DbtChildProcess, and its kill() and      *)
(*     restart().                                                          *)
(* Strings whose characters matter (table and field names) are sequences   *)
(* of one-character strings; other strings are TLA+ strings.               *)
(***************************************************************************)
EXTENDS Integers, Sequences, FiniteSets, TLC

VARIABLES
    call,       \* the last call of a pure function of packages/common: [op, arg, ret]
    state,      \* ExplorerProvider: reducerState
    pristineState, \* ExplorerProvider: pristineReducerState
    db,         \* backend: the tables of the saved-query schema and their serial counters
    dbCall,     \* backend: the last call of createSavedQuery / addSavedQueryVersion
    queryRun,   \* frontend: the last query the Run query button fetched, and whether it is in flight
    form,       \* frontend: StringFilterGroupForm, its filter group and the module's default table
    dbt,        \* backend: a DbtChildProcess, its child process and its start promise
    proc        \* backend: a DbtChildProcess under kill() and restart(): its children and the calls

vars == <<call, state, pristineState, db, dbCall, queryRun, form, dbt, proc>>

(***************************************************************************)
(* Bounds of the model.                                                    *)
(***************************************************************************)
MaxNameLen == 2     \* longest table or field name given to fieldId
MaxDims == 3        \* longest dimension list given to filterableDimensionsOnly
MaxTables == 2      \* most tables in an explore

(***************************************************************************)
(* JavaScript values and helpers.                                          *)
(***************************************************************************)
\* undefined, as a value comparable with the records of the model
Undefined == [undefined |-> TRUE]

RECURSIVE Flatten(_)
\* Array.prototype.flat over a sequence of sequences (the "flat" of flatMap)
Flatten(ss) == IF ss = <<>> THEN <<>> ELSE Head(ss) \o Flatten(Tail(ss))

\* Object.values of an object kept as its sequence of [key, value] entries
ObjectValues(obj) == [i \in 1..Len(obj) |-> obj[i].value]

\* The elements of a sequence
Range(s) == {s[i] : i \in 1..Len(s)}

\* All sequences over S of length at most n
SeqsUpTo(S, n) == UNION {[1..k -> S] : k \in 0..n}

(***************************************************************************)
(* packages/common: fields.                                                *)
(***************************************************************************)
DimensionTypes == {"string", "number", "timestamp", "date", "boolean"}

MeasureTypes == {"average", "count", "count_distinct", "sum", "min", "max"}

\* Table.name: "Must be sql friendly (a-Z, 0-9, _)"; two of those characters
Chars == {"a", "_"}

\* The non-empty sql friendly names of at most MaxNameLen characters
Names == UNION {[1..n -> Chars] : n \in 1..MaxNameLen}

\* fieldId = `${field.table}_${field.name}`
fieldId(field) == field.table \o <<"_">> \o field.name

\* A mutant of isDimension: count_distinct is classed with the dimensions
isDimensionCountDistinct(field) ==
    IF field.type \in DimensionTypes \cup {"count_distinct"}
    THEN [threw |-> FALSE, value |-> TRUE]
    ELSE [threw |-> FALSE, value |-> FALSE]

\* isDimension: the switch over field.type, whose default case throws
isDimension(field) ==
    CASE field.type = "number" -> [threw |-> FALSE, value |-> TRUE]
      [] field.type = "string" -> [threw |-> FALSE, value |-> TRUE]
      [] field.type = "boolean" -> [threw |-> FALSE, value |-> TRUE]
      [] field.type = "date" -> [threw |-> FALSE, value |-> TRUE]
      [] field.type = "timestamp" -> [threw |-> FALSE, value |-> TRUE]
      [] field.type = "average" -> [threw |-> FALSE, value |-> FALSE]
      [] field.type = "sum" -> [threw |-> FALSE, value |-> FALSE]
      [] field.type = "min" -> [threw |-> FALSE, value |-> FALSE]
      [] field.type = "max" -> [threw |-> FALSE, value |-> FALSE]
      [] field.type = "count_distinct" -> [threw |-> FALSE, value |-> FALSE]
      [] field.type = "count" -> [threw |-> FALSE, value |-> FALSE]
      [] OTHER -> [threw |-> TRUE, value |-> FALSE]

\* A mutant of assertFilterableDimension: boolean dimensions pass as well
assertFilterableDimensionBoolean(dimension) ==
    IF dimension.type \in {"string", "number", "boolean"} THEN dimension ELSE Undefined

\* assertFilterableDimension: the dimension if it is a string or a number, else undefined
assertFilterableDimension(dimension) ==
    CASE dimension.type = "string" -> dimension
      [] dimension.type = "number" -> dimension
      [] OTHER -> Undefined

\* filterableDimensionsOnly: dimensions.map(assertFilterableDimension).filter(d => d !== undefined)
filterableDimensionsOnly(dimensions) ==
    LET mapped == [i \in 1..Len(dimensions) |-> assertFilterableDimension(dimensions[i])]
        defined(d) == d # Undefined
    IN  SelectSeq(mapped, defined)

(***************************************************************************)
(* packages/common: native column types.                                   *)
(***************************************************************************)
\* lightdashTypeMap: the own properties of the object literal
lightdashTypeMap ==
    "INTEGER" :> "number" @@
    "INT32" :> "number" @@
    "INT64" :> "number" @@
    "FLOAT" :> "number" @@
    "NUMERIC" :> "number" @@
    "BOOLEAN" :> "boolean" @@
    "STRING" :> "string" @@
    "TIMESTAMP" :> "timestamp" @@
    "DATETIME" :> "string" @@
    "DATE" :> "date" @@
    "TIME" :> "string" @@
    "BOOL" :> "boolean" @@
    "ARRAY" :> "string" @@
    "GEOGRAPHY" :> "string" @@
    "NUMBER" :> "number" @@
    "DECIMAL" :> "number" @@
    "INT" :> "number" @@
    "BIGINT" :> "number" @@
    "SMALLINT" :> "number" @@
    "FLOAT4" :> "number" @@
    "FLOAT8" :> "number" @@
    "DOUBLE" :> "number" @@
    "DOUBLE PRECISION" :> "number" @@
    "REAL" :> "number" @@
    "VARCHAR" :> "string" @@
    "CHAR" :> "string" @@
    "CHARACTER" :> "string" @@
    "TEXT" :> "string" @@
    "BINARY" :> "string" @@
    "VARBINARY" :> "string" @@
    "TIMESTAMP_NTZ" :> "timestamp" @@
    "VARIANT" :> "string" @@
    "OBJECT" :> "string" @@
    "INT2" :> "number" @@
    "INT4" :> "number" @@
    "INT8" :> "number" @@
    "NCHAR" :> "string" @@
    "BPCHAR" :> "string" @@
    "CHARACTER VARYING" :> "string" @@
    "NVARCHAR" :> "string" @@
    "TIMESTAMP WITHOUT TIME ZONE" :> "timestamp" @@
    "GEOMETRY" :> "string" @@
    "TIME WITHOUT TIME ZONE" :> "string" @@
    "XML" :> "string" @@
    "UUID" :> "string" @@
    "PG_LSN" :> "string" @@
    "MACADDR" :> "string" @@
    "JSON" :> "string" @@
    "JSONB" :> "string" @@
    "CIDR" :> "string" @@
    "INET" :> "string" @@
    "MONEY" :> "number" @@
    "SMALLSERIAL" :> "number" @@
    "SERIAL2" :> "number" @@
    "SERIAL" :> "number" @@
    "SERIAL4" :> "number" @@
    "BIGSERIAL" :> "number" @@
    "SERIAL8" :> "number"

\* The properties the object literal inherits from Object.prototype, which a
\* bracket lookup finds when the object has no own property of that name, and
\* what String() shows of each value (functions, and the prototype object)
ObjectPrototype ==
    "constructor" :> "function Object() { [native code] }" @@
    "toString" :> "function toString() { [native code] }" @@
    "toLocaleString" :> "function toLocaleString() { [native code] }" @@
    "valueOf" :> "function valueOf() { [native code] }" @@
    "hasOwnProperty" :> "function hasOwnProperty() { [native code] }" @@
    "isPrototypeOf" :> "function isPrototypeOf() { [native code] }" @@
    "propertyIsEnumerable" :> "function propertyIsEnumerable() { [native code] }" @@
    "__proto__" :> "[object Object]"

\* lightdashTypeMap[columnType]: the own property, else the inherited one, else undefined
lightdashTypeMapGet(columnType) ==
    IF columnType \in DOMAIN lightdashTypeMap THEN lightdashTypeMap[columnType]
    ELSE IF columnType \in DOMAIN ObjectPrototype THEN ObjectPrototype[columnType]
    ELSE "undefined"

\* Whether a looked-up value is truthy: every value but undefined (the map holds
\* no empty string, and functions and objects are truthy)
Truthy(v) == v # "undefined"

\* mapColumnTypeToLightdashType = lightdashTypeMap[columnType] || 'string'
mapColumnTypeToLightdashType(columnType) ==
    LET v == lightdashTypeMapGet(columnType)
    IN  IF Truthy(v) THEN v ELSE "string"

\* String.prototype.toUpperCase on the column types of the model that are not
\* upper case already
toUpperCase(s) ==
    CASE s = "integer" -> "INTEGER"
      [] s = "Integer" -> "INTEGER"
      [] s = "boolean" -> "BOOLEAN"
      [] s = "timestamp" -> "TIMESTAMP"
      [] s = "date" -> "DATE"
      [] s = "Date" -> "DATE"
      [] s = "double precision" -> "DOUBLE PRECISION"
      [] s = "character varying" -> "CHARACTER VARYING"
      [] s = "text" -> "TEXT"
      [] s = "timestamptz" -> "TIMESTAMPTZ"
      [] s = "constructor" -> "CONSTRUCTOR"
      [] s = "toString" -> "TOSTRING"
      [] s = "valueOf" -> "VALUEOF"
      [] s = "hasOwnProperty" -> "HASOWNPROPERTY"
      [] s = "__proto__" -> "__PROTO__"
      [] OTHER -> s

\* The column types given to mapColumnTypeToLightdashType: every key of the
\* table, other spellings of some, types the table does not know (among them
\* the ones the source lists as unsupported) and names of Object.prototype
ColumnTypes ==
    DOMAIN lightdashTypeMap \cup
    {"integer", "Integer", "boolean", "timestamp", "date", "Date",
     "double precision", "character varying", "text"} \cup
    {"", "TIMETZ", "TIMESTAMPTZ", "timestamptz", "INTERVAL", "BYTEA", "HLLSKETCH"} \cup
    {"constructor", "toString", "valueOf", "hasOwnProperty", "__proto__"}

(***************************************************************************)
(* packages/common: explores.  An object with named properties is kept as  *)
(* the sequence of its [key, value] entries, in insertion order.           *)
(***************************************************************************)
\* The table names and the field names of the explores of the model
ExploreTableNames == {<<"a">>, <<"a", "_">>}

ExploreFieldNames == {<<"b">>, <<"_", "b">>}

\* The sequences over S that hold no element twice
InjectiveSeqs(S) ==
    {s \in SeqsUpTo(S, Cardinality(S)) : \A i, j \in 1..Len(s) : s[i] = s[j] => i = j}

\* A Dimension of table t named n
Dimension(t, n) ==
    [type |-> IF n = <<"b">> THEN "string" ELSE "timestamp",
     name |-> n, table |-> t, sql |-> <<"${TABLE}.">> \o n]

\* A Measure of table t named n
Measure(t, n) ==
    [type |-> IF n = <<"b">> THEN "sum" ELSE "count_distinct",
     name |-> n, table |-> t, sql |-> <<"${TABLE}.">> \o n]

\* A Table named t with the dimensions and the measures of the given names
Table(t, dimensionNames, measureNames) ==
    [name |-> t,
     sqlTable |-> <<"db.">> \o t,
     dimensions |-> [i \in 1..Len(dimensionNames) |->
                        [key |-> dimensionNames[i], value |-> Dimension(t, dimensionNames[i])]],
     measures |-> [i \in 1..Len(measureNames) |->
                        [key |-> measureNames[i], value |-> Measure(t, measureNames[i])]]]

Tables ==
    {Table(t, ds, ms) : t \in ExploreTableNames,
                        ds \in InjectiveSeqs(ExploreFieldNames),
                        ms \in InjectiveSeqs(ExploreFieldNames)}

\* An Explore over the tables ts: the first is the base table, the others are joined
Explore(ts) ==
    [name |-> "explore",
     baseTable |-> ts[1].name,
     joinedTables |-> [i \in 1..(Len(ts) - 1) |->
                          [table |-> ts[i + 1].name, sqlOn |-> "${a}.id = ${b}.id"]],
     tables |-> [i \in 1..Len(ts) |-> [key |-> ts[i].name, value |-> ts[i]]]]

\* The explores of the model: one to MaxTables tables of different names
Explores ==
    {Explore(ts) : ts \in {s \in SeqsUpTo(Tables, MaxTables) :
                              /\ Len(s) >= 1
                              /\ \A i, j \in 1..Len(s) : s[i].name = s[j].name => i = j}}

\* getDimensions = Object.values(explore.tables).flatMap(t => Object.values(t.dimensions))
getDimensions(explore) ==
    LET ts == ObjectValues(explore.tables)
    IN  Flatten([i \in 1..Len(ts) |-> ObjectValues(ts[i].dimensions)])

\* getMeasures = Object.values(explore.tables).flatMap(t => Object.values(t.measures))
getMeasures(explore) ==
    LET ts == ObjectValues(explore.tables)
    IN  Flatten([i \in 1..Len(ts) |-> ObjectValues(ts[i].measures)])

\* A mutant of getFields: the measures are left out
getFieldsDimensionsOnly(explore) == getDimensions(explore)

\* getFields = [...getDimensions(explore), ...getMeasures(explore)]
getFields(explore) == getDimensions(explore) \o getMeasures(explore)

RECURSIVE ScanFieldIds(_, _)
\* The duplicate detection of explore construction: one scan of the fields,
\* failing on the first whose id was seen before and reporting its table and name
ScanFieldIds(fields, seen) ==
    IF fields = <<>> THEN [ok |-> TRUE, error |-> "", table |-> <<>>, name |-> <<>>]
    ELSE IF fieldId(Head(fields)) \in seen
         THEN [ok |-> FALSE, error |-> "DuplicateFieldIdError",
               table |-> Head(fields).table, name |-> Head(fields).name]
         ELSE ScanFieldIds(Tail(fields), seen \cup {fieldId(Head(fields))})

\* A mutant of explore construction: fields are compared by (table, name), not by id
ConstructExploreByName(explore) ==
    LET fields == getFields(explore)
    IN  IF \E i, j \in 1..Len(fields) :
              i < j /\ fields[i].table = fields[j].table /\ fields[i].name = fields[j].name
        THEN [ok |-> FALSE, error |-> "DuplicateFieldIdError", table |-> <<>>, name |-> <<>>]
        ELSE [ok |-> TRUE, error |-> "", table |-> <<>>, name |-> <<>>]

\* Explore construction, which rejects an explore with two fields of one id
ConstructExplore(explore) == ScanFieldIds(getFields(explore), {})

(***************************************************************************)
(* The query compiler.  Its code is not among the sources, which hold only *)
(* the types it works on (Explore, MetricQuery, SortField, FilterGroup):   *)
(* compileQuery follows sections 4.2 to 4.4 and 7 of the specification.    *)
(* The compiled text is kept as the sequence of its clauses.  The          *)
(* specification orders the clauses, not the validations: when a query     *)
(* breaks several rules, compileQuery may fail with the error of any.      *)
(***************************************************************************)
MaxQueryFields == 2     \* most dimensions selected by a compiled query

\* The table names of the compiled explore: o is the base table, c and p are
\* joined in this order, x is a table of the explore that no join declares
CompileTableNames == <<<<"o">>, <<"c">>, <<"p">>, <<"x">>>>

\* The explore the queries are compiled against; every table has the
\* dimension b and the measure n
CompileExplore ==
    [name |-> "explore",
     baseTable |-> <<"o">>,
     joinedTables |-> <<[table |-> <<"c">>, sqlOn |-> "${o}.id = ${c}.id"],
                        [table |-> <<"p">>, sqlOn |-> "${c}.id = ${p}.id"]>>,
     tables |-> [i \in 1..Len(CompileTableNames) |->
                    [key |-> CompileTableNames[i],
                     value |-> Table(CompileTableNames[i], <<<<"b">>>>, <<<<"n">>>>)]]]

\* The fields a query selects, and the fields it refers to anywhere
SelectedFields(q) == Range(q.dimensions) \cup Range(q.measures)

ReferencedFields(q) ==
    SelectedFields(q) \cup {q.filters[i].dimension : i \in 1..Len(q.filters)}
                      \cup {q.sorts[i].field : i \in 1..Len(q.sorts)}

\* The tables a query of the explore can read: the base table and the declared joins
JoinableTables(explore) ==
    {explore.baseTable} \cup {explore.joinedTables[i].table : i \in 1..Len(explore.joinedTables)}

\* 4.4 step 1: every referenced field exists in the explore
UnknownFieldErrors(q) ==
    {[error |-> "UnknownFieldError", field |-> fieldId(f)] :
        f \in {g \in ReferencedFields(q) : g \notin Range(getFields(q.explore))}}

\* A mutant of the join check: any table of the explore will do
MissingJoinErrorsAnyTable(q) ==
    {[error |-> "MissingJoinError", field |-> fieldId(f)] :
        f \in {g \in SelectedFields(q) :
                  g.table \notin {t.name : t \in Range(ObjectValues(q.explore.tables))}}}

\* 4.3: a selected field's table is the base table or a declared join
MissingJoinErrors(q) ==
    {[error |-> "MissingJoinError", field |-> fieldId(f)] :
        f \in {g \in SelectedFields(q) : g.table \notin JoinableTables(q.explore)}}

\* A mutant of the empty-query check: a query with filters passes
EmptyQueryErrorsNoFilters(q) ==
    IF q.dimensions = <<>> /\ q.measures = <<>> /\ q.filters = <<>>
    THEN {[error |-> "EmptyQueryError", field |-> <<>>]}
    ELSE {}

\* 4.4 step 3: a query selects a dimension or a measure
EmptyQueryErrors(q) ==
    IF q.dimensions = <<>> /\ q.measures = <<>>
    THEN {[error |-> "EmptyQueryError", field |-> <<>>]}
    ELSE {}

\* A mutant of the sort check: any field of the explore will do
InvalidSortErrorsAnyField(q) ==
    {[error |-> "InvalidSortError", field |-> fieldId(f)] :
        f \in {q.sorts[i].field : i \in {j \in 1..Len(q.sorts) :
                  q.sorts[j].field \notin Range(getFields(q.explore))}}}

\* 4.4 step 7: every sort field is a selected dimension or measure
InvalidSortErrors(q) ==
    {[error |-> "InvalidSortError", field |-> fieldId(f)] :
        f \in {q.sorts[i].field : i \in {j \in 1..Len(q.sorts) :
                  q.sorts[j].field \notin SelectedFields(q)}}}

\* 4.4 step 8: the limit is positive
InvalidLimitErrors(q) ==
    IF q.limit <= 0 THEN {[error |-> "InvalidLimitError", field |-> <<>>]} ELSE {}

\* The errors a query can fail with
CompileErrors(q) ==
    UnknownFieldErrors(q) \cup MissingJoinErrors(q) \cup EmptyQueryErrors(q)
        \cup InvalidSortErrors(q) \cup InvalidLimitErrors(q)

\* A field's sql with ${TABLE} replaced by the field's table
renderSql(field) == field.table \o <<".">> \o Tail(field.sql)

\* 4.4 step 3: the sql aggregate of a measure type
Aggregate(type) ==
    CASE type = "average" -> "AVG"
      [] type = "sum" -> "SUM"
      [] type = "min" -> "MIN"
      [] type = "max" -> "MAX"
      [] type = "count" -> "COUNT"
      [] type = "count_distinct" -> "COUNT DISTINCT"

\* 4.4 step 3: {renderedSql} AS {fieldId}, or {AGG}({renderedSql}) AS {fieldId}
SelectItem(field) ==
    IF isDimension(field).value
    THEN [sql |-> renderSql(field), as |-> fieldId(field)]
    ELSE [agg |-> Aggregate(field.type), sql |-> renderSql(field), as |-> fieldId(field)]

\* A mutant of the join resolution: filter dimensions are not looked at
ReferencedTablesSelectedOnly(q) == {f.table : f \in SelectedFields(q)}

\* 4.3: the tables referenced by a selected field, a filter or a sort field
ReferencedTables(q) == {f.table : f \in ReferencedFields(q)}

\* 4.3: a LEFT JOIN for every referenced table of joinedTables, in declared order
JoinClauses(q) ==
    LET Needed(j) == j.table \in ReferencedTables(q)
        joins == SelectSeq(q.explore.joinedTables, Needed)
        TableNamed(t) == (CHOOSE e \in Range(q.explore.tables) : e.key = t).value
    IN  [i \in 1..Len(joins) |->
            [kind |-> "LEFT JOIN", sqlTable |-> TableNamed(joins[i].table).sqlTable,
             as |-> joins[i].table, on |-> joins[i].sqlOn]]

\* A mutant of the filter rendering: IN and NOT IN whatever the values
renderFilterPlainIn(dimension, filter) ==
    CASE filter.operator = "equals" ->
            [shape |-> "IN", sql |-> renderSql(dimension), values |-> filter.values]
      [] filter.operator = "notEquals" ->
            [shape |-> "NOT IN", sql |-> renderSql(dimension), values |-> filter.values]
      [] filter.operator = "startsWith" ->
            [shape |-> "LIKE", sql |-> renderSql(dimension), value |-> filter.value]
      [] filter.operator = "isNull" -> [shape |-> "IS NULL", sql |-> renderSql(dimension)]
      [] filter.operator = "notNull" -> [shape |-> "IS NOT NULL", sql |-> renderSql(dimension)]

\* 4.2: the clause of one filter; equals of no value is always false,
\* notEquals of no value always true
renderFilter(dimension, filter) ==
    CASE filter.operator = "equals" ->
            IF filter.values = <<>> THEN [shape |-> "FALSE"]
            ELSE [shape |-> "IN", sql |-> renderSql(dimension), values |-> filter.values]
      [] filter.operator = "notEquals" ->
            IF filter.values = <<>> THEN [shape |-> "TRUE"]
            ELSE [shape |-> "NOT IN", sql |-> renderSql(dimension), values |-> filter.values]
      [] filter.operator = "startsWith" ->
            [shape |-> "LIKE", sql |-> renderSql(dimension), value |-> filter.value]
      [] filter.operator = "isNull" -> [shape |-> "IS NULL", sql |-> renderSql(dimension)]
      [] filter.operator = "notNull" -> [shape |-> "IS NOT NULL", sql |-> renderSql(dimension)]

\* 4.2: a group's clauses joined by its connective, parenthesized as a unit
renderFilterGroup(group) ==
    [connective |-> group.operator,
     clauses |-> [i \in 1..Len(group.filters) |-> renderFilter(group.dimension, group.filters[i])]]

\* 4.4 step 5: the groups joined with AND; no WHERE without filters
WhereClauses(q) ==
    IF q.filters = <<>> THEN <<>>
    ELSE <<[kind |-> "WHERE",
            groups |-> [i \in 1..Len(q.filters) |-> renderFilterGroup(q.filters[i])]]>>

\* A mutant of the grouping: grouped whenever a dimension is selected
GroupByClausesOfDimensions(q) ==
    IF q.dimensions = <<>> THEN <<>>
    ELSE <<[kind |-> "GROUP BY",
            items |-> [i \in 1..Len(q.dimensions) |-> fieldId(q.dimensions[i])]]>>

\* 4.4 step 6: grouped by every selected dimension when a measure is selected
GroupByClauses(q) ==
    IF q.measures = <<>> THEN <<>>
    ELSE <<[kind |-> "GROUP BY",
            items |-> [i \in 1..Len(q.dimensions) |-> fieldId(q.dimensions[i])]]>>

\* 4.4 step 7: {fieldId} {ASC|DESC} for each sort, in the order given
OrderByClauses(q) ==
    IF q.sorts = <<>> THEN <<>>
    ELSE <<[kind |-> "ORDER BY",
            items |-> [i \in 1..Len(q.sorts) |->
                          [as |-> fieldId(q.sorts[i].field),
                           direction |-> IF q.sorts[i].direction = "descending"
                                         THEN "DESC" ELSE "ASC"]]]>>

\* 4.4: the clauses of a valid query, in order
RenderQuery(q) ==
    LET fields == q.dimensions \o q.measures
        base == (CHOOSE e \in Range(q.explore.tables) : e.key = q.explore.baseTable).value
    IN  <<[kind |-> "SELECT", items |-> [i \in 1..Len(fields) |-> SelectItem(fields[i])]],
          [kind |-> "FROM", sqlTable |-> base.sqlTable, as |-> base.name]>>
        \o JoinClauses(q) \o WhereClauses(q) \o GroupByClauses(q) \o OrderByClauses(q)
        \o <<[kind |-> "LIMIT", limit |-> q.limit]>>

\* compileQuery(metricQuery): the outcomes of compiling, one error of those
\* that apply, or the compiled clauses and no partial result
compileQuery(q) ==
    IF CompileErrors(q) # {}
    THEN {[ok |-> FALSE, error |-> e.error, field |-> e.field, sql |-> <<>>] :
             e \in CompileErrors(q)}
    ELSE {[ok |-> TRUE, error |-> "", field |-> <<>>, sql |-> RenderQuery(q)]}

\* The dimensions given to the compiler: b of every table, and q of the base
\* table, which the explore does not have
CompileDimensions ==
    {Dimension(CompileTableNames[i], <<"b">>) : i \in 1..Len(CompileTableNames)}
        \cup {Dimension(<<"o">>, <<"q">>)}

\* The filter groups given to the compiler
CompileFilterGroups ==
    <<[type |-> "string", dimension |-> Dimension(<<"o">>, <<"b">>), operator |-> "and",
       filters |-> <<[operator |-> "equals", values |-> <<>>],
                     [operator |-> "notNull"]>>],
      [type |-> "string", dimension |-> Dimension(<<"c">>, <<"b">>), operator |-> "or",
       filters |-> <<[operator |-> "notEquals", values |-> <<>>],
                     [operator |-> "equals", values |-> <<"v">>],
                     [operator |-> "startsWith", value |-> "v"]>>]>>

\* The metric queries given to the compiler
CompileInputs ==
    [explore : {CompileExplore},
     dimensions : {s \in SeqsUpTo(CompileDimensions, MaxQueryFields) :
                      \A i, j \in 1..Len(s) : s[i] = s[j] => i = j},
     measures : {<<>>, <<Measure(<<"o">>, <<"n">>)>>},
     filters : {<<>>, <<CompileFilterGroups[1]>>, <<CompileFilterGroups[2]>>,
                CompileFilterGroups},
     sorts : {<<>>,
              <<[field |-> Dimension(<<"o">>, <<"b">>), direction |-> "descending"]>>,
              <<[field |-> Dimension(<<"c">>, <<"b">>), direction |-> "ascending"]>>,
              <<[field |-> Measure(<<"o">>, <<"n">>), direction |-> "descending"]>>},
     limit : {10, 0}]

(***************************************************************************)
(* Calls of the functions of packages/common.                              *)
(***************************************************************************)
\* The fields given to fieldId: every table name with every field name
FieldIdInputs == [type : {"string"}, name : Names, table : Names]

\* The fields given to isDimension: every type tag, and two outside the closed set
FieldTypeInputs ==
    [type : DimensionTypes \cup MeasureTypes \cup {"percentile", ""},
     name : {<<"b">>}, table : {<<"a">>}]

\* The dimensions given to filterableDimensionsOnly
DimensionInputs ==
    [type : DimensionTypes, name : {<<"b">>}, table : {<<"a">>}] \cup
    [type : {"string"}, name : {<<"_", "b">>}, table : {<<"a">>}]

\* A call about to be made: the function and its arguments
Pending(op, arg) == [op |-> op, arg |-> arg, done |-> FALSE]

\* The calls of the model (fieldId is called on two fields)
Calls ==
    {Pending("fieldId", <<f, g>>) : f \in FieldIdInputs, g \in FieldIdInputs} \cup
    {Pending("isDimension", f) : f \in FieldTypeInputs} \cup
    {Pending("filterableDimensionsOnly", ds) : ds \in SeqsUpTo(DimensionInputs, MaxDims)} \cup
    {Pending("mapColumnTypeToLightdashType", t) : t \in ColumnTypes} \cup
    {Pending(op, e) : op \in {"getDimensions", "getMeasures", "getFields", "constructExplore"},
                      e \in Explores} \cup
    {Pending("compileQuery", q) : q \in CompileInputs}

\* The call returns: ret is what it returned
Return(op, ret) ==
    /\ call.op = op
    /\ ~call.done
    /\ call' = [op |-> op, arg |-> call.arg, done |-> TRUE, ret |-> ret]
    /\ UNCHANGED <<state, db, dbCall, queryRun, form, dbt, pristineState, proc>>

CallFieldId ==
    /\ call.op = "fieldId"
    /\ Return("fieldId", <<fieldId(call.arg[1]), fieldId(call.arg[2])>>)

CallIsDimension ==
    /\ call.op = "isDimension"
    /\ Return("isDimension", isDimension(call.arg))

CallFilterableDimensionsOnly ==
    /\ call.op = "filterableDimensionsOnly"
    /\ Return("filterableDimensionsOnly", filterableDimensionsOnly(call.arg))

CallMapColumnType ==
    /\ call.op = "mapColumnTypeToLightdashType"
    /\ Return("mapColumnTypeToLightdashType", mapColumnTypeToLightdashType(call.arg))

\* The three getters read the explore and assign nothing in it: call.arg, the
\* explore passed, is the explore after the call as well
CallGetDimensions ==
    /\ call.op = "getDimensions"
    /\ Return("getDimensions", getDimensions(call.arg))

CallGetMeasures ==
    /\ call.op = "getMeasures"
    /\ Return("getMeasures", getMeasures(call.arg))

CallGetFields ==
    /\ call.op = "getFields"
    /\ Return("getFields", getFields(call.arg))

CallConstructExplore ==
    /\ call.op = "constructExplore"
    /\ Return("constructExplore", ConstructExplore(call.arg))

CallCompileQuery ==
    /\ call.op = "compileQuery"
    /\ \E ret \in compileQuery(call.arg) : Return("compileQuery", ret)

(***************************************************************************)
(* frontend: ExplorerProvider.  A JavaScript number is [nan, n]: NaN, or   *)
(* the integer n.                                                          *)
(***************************************************************************)
MaxPayloadLen == 2  \* longest list (sorts, column order) in an action's payload

Num(n) == [nan |-> FALSE, n |-> n]

NaN == [nan |-> TRUE, n |-> 0]

\* a > b on numbers: false when either is NaN
NumGreater(a, b) == ~a.nan /\ ~b.nan /\ a.n > b.n

\* Whether a number is truthy: neither 0 nor NaN
NumTruthy(a) == ~a.nan /\ a.n # 0

\* tableName: undefined
NoTableName == "undefined"

\* The field ids of the explorer: a dimension and a metric of table a
DimensionIds == {"a_b"}

MetricIds == {"a_n"}

FieldIds == DimensionIds \cup MetricIds

SortFields == [fieldId : FieldIds, descending : BOOLEAN]

\* The filters of the model: none, or one string filter group with a new filter
FilterValues ==
    {<<>>,
     <<[type |-> "string", dimension |-> "a_b", operator |-> "and",
        filters |-> <<[operator |-> "equals", values |-> <<>>]>>]>>}

\* The row limits of the model: what the NumericInput and a saved query can give
LimitValues == {Num(-1), Num(0), Num(10), Num(500), NaN}

TableNameValues == {NoTableName, "a"}

\* defaultState
defaultState ==
    [tableName |-> NoTableName,
     dimensions |-> <<>>,
     metrics |-> <<>>,
     filters |-> <<>>,
     sorts |-> <<>>,
     columnOrder |-> <<>>,
     limit |-> Num(500)]

\* Array.prototype.indexOf, from 1; 0 when the value is absent
IndexOf(array, value) ==
    IF \E i \in 1..Len(array) : array[i] = value
    THEN CHOOSE i \in 1..Len(array) :
            array[i] = value /\ \A j \in 1..(i - 1) : array[j] # value
    ELSE 0

\* Array.prototype.includes
Includes(array, value) == \E i \in 1..Len(array) : array[i] = value

\* array.splice(index, 1): the array without its element at index
RemoveAt(array, index) ==
    [i \in 1..(Len(array) - 1) |-> IF i < index THEN array[i] ELSE array[i + 1]]

\* toggleArrayValue: push the value when absent, else splice its first occurrence
toggleArrayValue(initialArray, value) ==
    LET index == IndexOf(initialArray, value)
    IN  IF index = 0 THEN Append(initialArray, value) ELSE RemoveAt(initialArray, index)

\* calcColumnOrder: the columns that are field ids, then the field ids not among them
calcColumnOrder(columnOrder, fieldIds) ==
    LET isFieldId(column) == Includes(fieldIds, column)
        cleanColumnOrder == SelectSeq(columnOrder, isFieldId)
        isMissing(id) == ~Includes(cleanColumnOrder, id)
        missingColumns == SelectSeq(fieldIds, isMissing)
    IN  cleanColumnOrder \o missingColumns

\* state.sorts.filter((s) => s.fieldId !== payload)
SortsWithout(sorts, id) ==
    LET other(s) == s.fieldId # id
    IN  SelectSeq(sorts, other)

\* A reduce that drops every entry of the field, whatever its direction
ToggleSortReduceDropping(sorts, sortFieldId, acc) ==
    acc \o SortsWithout(sorts, sortFieldId)

RECURSIVE ToggleSortReduce(_, _, _)
\* The reduce of TOGGLE_SORT_FIELD: entries of other fields are kept, an
\* ascending entry of the field becomes descending, a descending one is dropped
ToggleSortReduce(sorts, sortFieldId, acc) ==
    IF sorts = <<>> THEN acc
    ELSE LET sf == Head(sorts)
         IN  ToggleSortReduce(
                 Tail(sorts), sortFieldId,
                 IF sf.fieldId # sortFieldId THEN Append(acc, sf)
                 ELSE IF sf.descending THEN acc
                 ELSE Append(acc, [sf EXCEPT !.descending = TRUE]))

\* case SET_SORT_FIELDS: the payload's entries whose field is active
ReduceSetSortFields(s, payload) ==
    LET activeFields == Range(s.dimensions) \cup Range(s.metrics)
        active(sf) == sf.fieldId \in activeFields
    IN  [s EXCEPT !.sorts = SelectSeq(payload, active)]

\* case TOGGLE_SORT_FIELD
ReduceToggleSortField(s, sortFieldId) ==
    LET activeFields == Range(s.dimensions) \cup Range(s.metrics)
    IN  IF sortFieldId \notin activeFields THEN s
        ELSE IF ~(\E i \in 1..Len(s.sorts) : s.sorts[i].fieldId = sortFieldId)
             THEN [s EXCEPT !.sorts =
                        Append(s.sorts, [fieldId |-> sortFieldId, descending |-> FALSE])]
             ELSE [s EXCEPT !.sorts = ToggleSortReduce(s.sorts, sortFieldId, <<>>)]

\* case SET_STATE: the payload, with its column order recomputed
ReduceSetState(payload) ==
    [payload EXCEPT !.columnOrder =
        calcColumnOrder(payload.columnOrder, payload.dimensions \o payload.metrics)]

\* case TOGGLE_DIMENSION
ReduceToggleDimension(s, id) ==
    LET dimensions == toggleArrayValue(s.dimensions, id)
    IN  [s EXCEPT !.dimensions = dimensions,
                  !.sorts = SortsWithout(s.sorts, id),
                  !.columnOrder = calcColumnOrder(s.columnOrder, dimensions \o s.metrics)]

\* case TOGGLE_METRIC
ReduceToggleMetric(s, id) ==
    LET metrics == toggleArrayValue(s.metrics, id)
    IN  [s EXCEPT !.metrics = metrics,
                  !.sorts = SortsWithout(s.sorts, id),
                  !.columnOrder = calcColumnOrder(s.columnOrder, s.dimensions \o metrics)]

\* reducer
reducer(s, action) ==
    CASE action.type = "RESET" -> defaultState
      [] action.type = "SET_STATE" -> ReduceSetState(action.payload)
      [] action.type = "SET_TABLE_NAME" -> [s EXCEPT !.tableName = action.payload]
      [] action.type = "TOGGLE_DIMENSION" -> ReduceToggleDimension(s, action.payload)
      [] action.type = "TOGGLE_METRIC" -> ReduceToggleMetric(s, action.payload)
      [] action.type = "TOGGLE_SORT_FIELD" -> ReduceToggleSortField(s, action.payload)
      [] action.type = "SET_SORT_FIELDS" -> ReduceSetSortFields(s, action.payload)
      [] action.type = "SET_ROW_LIMIT" -> [s EXCEPT !.limit = action.payload]
      [] action.type = "SET_FILTERS" -> [s EXCEPT !.filters = action.payload]
      [] action.type = "SET_COLUMN_ORDER" ->
            [s EXCEPT !.columnOrder =
                calcColumnOrder(action.payload, s.dimensions \o s.metrics)]

\* The active fields and isValidQuery that the provider derives from the state
activeFields(s) == Range(s.dimensions) \cup Range(s.metrics)

\* A mutant of isValidQuery: only the dimensions count
isValidQueryDimensionsOnly(s) == Len(s.dimensions) > 0

isValidQuery(s) == Cardinality(activeFields(s)) > 0

\* useQueryResults: the MetricQuery built from the state; limit || 500
metricQuery(s) ==
    [dimensions |-> s.dimensions,
     metrics |-> s.metrics,
     sorts |-> s.sorts,
     filters |-> s.filters,
     limit |-> IF NumTruthy(s.limit) THEN s.limit ELSE Num(500),
     tableCalculations |-> <<>>]

\* The states a saved query can load (setState): fields of their kinds, no
\* sort or one, filters, a column order and a limit
StatePayloads ==
    [tableName : TableNameValues \ {NoTableName},
     dimensions : InjectiveSeqs(DimensionIds),
     metrics : InjectiveSeqs(MetricIds),
     filters : FilterValues,
     sorts : {<<>>} \cup {<<sf>> : sf \in SortFields},
     columnOrder : {<<>>, <<"a_n", "a_b">>},
     limit : LimitValues]

NoPayload == <<>>

\* Each action dispatches to the working reducer, whose result becomes the
\* state.  reset()
Reset ==
    /\ state' = reducer(state, [type |-> "RESET", payload |-> NoPayload])
    /\ UNCHANGED <<call, db, dbCall, queryRun, form, dbt, pristineState, proc>>

\* SET_STATE dispatched to the working reducer, with any payload (the setState
\* of the provider, which dispatches to both reducers, is ProviderSetState)
SetState ==
    /\ \E p \in StatePayloads :
          state' = reducer(state, [type |-> "SET_STATE", payload |-> p])
    /\ UNCHANGED <<call, db, dbCall, queryRun, form, dbt, pristineState, proc>>

\* setTableName(tableName)
SetTableName ==
    /\ \E t \in TableNameValues \ {NoTableName} :
          state' = reducer(state, [type |-> "SET_TABLE_NAME", payload |-> t])
    /\ UNCHANGED <<call, db, dbCall, queryRun, form, dbt, pristineState, proc>>

\* toggleActiveField(fieldId, true)
ToggleDimension ==
    /\ \E id \in DimensionIds :
          state' = reducer(state, [type |-> "TOGGLE_DIMENSION", payload |-> id])
    /\ UNCHANGED <<call, db, dbCall, queryRun, form, dbt, pristineState, proc>>

\* toggleActiveField(fieldId, false)
ToggleMetric ==
    /\ \E id \in MetricIds :
          state' = reducer(state, [type |-> "TOGGLE_METRIC", payload |-> id])
    /\ UNCHANGED <<call, db, dbCall, queryRun, form, dbt, pristineState, proc>>

\* toggleSortField(fieldId)
ToggleSortField ==
    /\ \E id \in FieldIds :
          state' = reducer(state, [type |-> "TOGGLE_SORT_FIELD", payload |-> id])
    /\ UNCHANGED <<call, db, dbCall, queryRun, form, dbt, pristineState, proc>>

\* setSortFields(sortFields)
SetSortFields ==
    /\ \E sorts \in SeqsUpTo(SortFields, MaxPayloadLen) :
          state' = reducer(state, [type |-> "SET_SORT_FIELDS", payload |-> sorts])
    /\ UNCHANGED <<call, db, dbCall, queryRun, form, dbt, pristineState, proc>>

\* setRowLimit(limit)
SetRowLimit ==
    /\ \E limit \in LimitValues :
          state' = reducer(state, [type |-> "SET_ROW_LIMIT", payload |-> limit])
    /\ UNCHANGED <<call, db, dbCall, queryRun, form, dbt, pristineState, proc>>

\* setFilters(filters)
SetFilters ==
    /\ \E filters \in FilterValues :
          state' = reducer(state, [type |-> "SET_FILTERS", payload |-> filters])
    /\ UNCHANGED <<call, db, dbCall, queryRun, form, dbt, pristineState, proc>>

\* setColumnOrder(order)
SetColumnOrder ==
    /\ \E order \in SeqsUpTo(FieldIds, MaxPayloadLen) :
          state' = reducer(state, [type |-> "SET_COLUMN_ORDER", payload |-> order])
    /\ UNCHANGED <<call, db, dbCall, queryRun, form, dbt, pristineState, proc>>

\* pristineReducer: RESET gives the default state, SET_STATE the payload with
\* its column order recomputed; pristineDispatch is given no other action
pristineReducer(s, action) ==
    CASE action.type = "RESET" -> defaultState
      [] action.type = "SET_STATE" ->
            [action.payload EXCEPT !.columnOrder =
                calcColumnOrder(action.payload.columnOrder,
                                action.payload.dimensions \o action.payload.metrics)]

\* syncState(): SET_STATE is dispatched to the pristine reducer with the
\* reducerState of the provider as its payload
syncState(pristine, reducerState) ==
    pristineReducer(pristine, [type |-> "SET_STATE", payload |-> reducerState])

\* The saved queries the page loads in the model: a table, fields of their
\* kinds, no filter, no sort, the default limit
SavedStates ==
    {p \in StatePayloads :
        /\ p.filters = <<>>
        /\ p.sorts = <<>>
        /\ p.columnOrder = <<>>
        /\ p.limit = Num(500)}

\* setState(state) of the provider: SET_STATE is dispatched to the pristine
\* reducer and to the working reducer
ProviderSetState ==
    /\ \E p \in SavedStates :
          /\ pristineState' = pristineReducer(pristineState,
                                              [type |-> "SET_STATE", payload |-> p])
          /\ state' = reducer(state, [type |-> "SET_STATE", payload |-> p])
    /\ UNCHANGED <<call, db, dbCall, queryRun, form, dbt, proc>>

\* The value of a state in the context: the reducer's state with the set of
\* active fields and the validity the provider adds
ExplorerState(s, fields, valid) ==
    [tableName |-> s.tableName,
     dimensions |-> s.dimensions,
     metrics |-> s.metrics,
     filters |-> s.filters,
     sorts |-> s.sorts,
     columnOrder |-> s.columnOrder,
     limit |-> s.limit,
     activeFields |-> fields,
     isValidQuery |-> valid]

\* The context value of the provider: state and pristineState are both given
\* activeFields and isValidQuery, the ones computed from reducerState
ContextValue ==
    [state |-> ExplorerState(state, activeFields(state), isValidQuery(state)),
     pristineState |->
         ExplorerState(pristineState, activeFields(state), isValidQuery(state))]

\* useQueryResults: the key of the query built from a state
queryKey(s) == <<"queryResults", s.tableName, metricQuery(s)>>

\* No query has been fetched from the Run query button yet
NoQueryRun == [ran |-> FALSE, status |-> "idle"]

\* RefreshButton: the button is disabled unless isValidQuery and takes no click
\* while the query of the working state is being fetched; a click refetches the
\* query built from the working state (useQueryResults(false)).  queryRun
\* follows the fetch started last.
RunQuery ==
    /\ isValidQuery(state)
    /\ ~(queryRun.status = "loading" /\ queryKey(queryRun.state) = queryKey(state))
    /\ queryRun' = [ran |-> TRUE,
                    status |-> "loading",
                    dimensions |-> metricQuery(state).dimensions,
                    metrics |-> metricQuery(state).metrics,
                    state |-> state]
    /\ UNCHANGED <<call, state, db, dbCall, form, dbt, pristineState, proc>>

\* The fetch succeeds: onSuccess calls syncState(), whose payload is the
\* reducerState of the provider at that time.  useQuery is a library: when the
\* key of the working state is no longer the key that was fetched, the observer
\* may have left the fetched query, and then onSuccess is not called.
FetchSuccess ==
    /\ queryRun.status = "loading"
    /\ queryRun' = [queryRun EXCEPT !.status = "success"]
    /\ \/ pristineState' = syncState(pristineState, state)
       \/ /\ queryKey(state) # queryKey(queryRun.state)
          /\ UNCHANGED pristineState
    /\ UNCHANGED <<call, state, db, dbCall, form, dbt, proc>>

\* The fetch fails (retry: false): the error is shown, nothing is synchronised
FetchError ==
    /\ queryRun.status = "loading"
    /\ queryRun' = [queryRun EXCEPT !.status = "error"]
    /\ UNCHANGED <<call, state, db, dbCall, form, dbt, pristineState, proc>>

(***************************************************************************)
(* backend: the saved-query tables (migration 20210728093219) and          *)
(* database/entities/savedQueries.ts.  A call runs its transaction as one  *)
(* step; a failed statement rolls the transaction back, which restores the *)
(* tables and leaves the serial counters where the statements left them.   *)
(***************************************************************************)
MaxVersions == 2    \* most version rows the calls of a run try to insert

TableNames ==
    {"saved_queries", "saved_queries_versions",
     "saved_queries_version_fields", "saved_queries_version_sorts"}

\* table.increments(...): the serial column of each table
SerialColumn ==
    [saved_queries |-> "saved_query_id",
     saved_queries_versions |-> "saved_queries_version_id",
     saved_queries_version_fields |-> "saved_queries_version_field_id",
     saved_queries_version_sorts |-> "saved_queries_version_sort_id"]

\* The columns a statement may name, besides the serial one and those with a default
InsertColumns ==
    [saved_queries |-> {"name", "space_id"},
     saved_queries_versions |-> {"explore_name", "filters", "row_limit", "saved_query_id"},
     saved_queries_version_fields |-> {"name", "isDimension", "saved_queries_version_id"},
     saved_queries_version_sorts |-> {"field_name", "descending", "saved_queries_version_id"}]

\* The tables whose rows get created_at from defaultTo(knex.fn.now())
HasCreatedAt == {"saved_queries", "saved_queries_versions"}

\* The database after the migration: empty tables, serial counters at 0, and the clock
EmptyDb ==
    [saved_queries |-> <<>>,
     saved_queries_versions |-> <<>>,
     saved_queries_version_fields |-> <<>>,
     saved_queries_version_sorts |-> <<>>,
     serial |-> [t \in TableNames |-> 0],
     now |-> 1]

\* INSERT ... RETURNING *: fails when the row names a column the table lacks or
\* omits a NOT NULL column (every insertable column of these tables is NOT NULL
\* without a default); else the row gets the next serial id and, where the
\* table has it, created_at
Insert(d, table, row) ==
    IF DOMAIN row # InsertColumns[table]
    THEN [ok |-> FALSE, db |-> d, row |-> row]
    ELSE LET id == d.serial[table] + 1
             stored == IF table \in HasCreatedAt
                       THEN row @@ (SerialColumn[table] :> id) @@ ("created_at" :> d.now)
                       ELSE row @@ (SerialColumn[table] :> id)
         IN  [ok |-> TRUE,
              db |-> [d EXCEPT ![table] = Append(@, stored),
                               !.serial = [@ EXCEPT ![table] = id]],
              row |-> stored]

RECURSIVE InsertAll(_, _)
\* The statements of a Promise.all on one transaction, run in the order issued
\* until the first that fails
InsertAll(d, statements) ==
    IF statements = <<>> THEN [ok |-> TRUE, db |-> d]
    ELSE LET r == Insert(d, Head(statements).table, Head(statements).row)
         IN  IF r.ok THEN InsertAll(r.db, Tail(statements)) ELSE [ok |-> FALSE, db |-> r.db]

\* JSON.stringify of the filters of the model, and the parse of the jsonb
\* column that the driver does on reading
JSONStringify(filters) ==
    IF filters = <<>> THEN "[]"
    ELSE "[{\"type\":\"string\",\"dimension\":\"a_b\",\"operator\":\"and\",\"filters\":[{\"operator\":\"equals\",\"values\":[]}]}]"

JSONParse(text) == CHOOSE filters \in FilterValues : JSONStringify(filters) = text

\* createSavedQueryVersionField: insert into saved_queries_version_fields
createSavedQueryVersionField(data) ==
    [table |-> "saved_queries_version_fields", row |-> data]

\* createSavedQueryVersionSort: insert into saved_queries_version_fields as well
createSavedQueryVersionSort(data) ==
    [table |-> "saved_queries_version_fields", row |-> data]

\* createSavedQueryVersion: the version row, then a row per dimension, per
\* metric and per sort; chartConfig is not read
createSavedQueryVersion(d, savedQueryId, data) ==
    LET version == Insert(d, "saved_queries_versions",
                          [row_limit |-> data.metricQuery.limit,
                           filters |-> JSONStringify(data.metricQuery.filters),
                           explore_name |-> data.tableName,
                           saved_query_id |-> savedQueryId])
        vid == version.row.saved_queries_version_id
        dimensions == data.metricQuery.dimensions
        metrics == data.metricQuery.metrics
        sorts == data.metricQuery.sorts
        promises ==
            [i \in 1..Len(dimensions) |->
                createSavedQueryVersionField(
                    [name |-> dimensions[i], isDimension |-> TRUE,
                     saved_queries_version_id |-> vid])] \o
            [i \in 1..Len(metrics) |->
                createSavedQueryVersionField(
                    [name |-> metrics[i], isDimension |-> FALSE,
                     saved_queries_version_id |-> vid])] \o
            [i \in 1..Len(sorts) |->
                createSavedQueryVersionSort(
                    [field_name |-> sorts[i].fieldId, descending |-> sorts[i].descending,
                     saved_queries_version_id |-> vid])]
    IN  IF version.ok THEN InsertAll(version.db, promises) ELSE [ok |-> FALSE, db |-> version.db]

\* The rows of a table that satisfy a where clause on one column, in table order
Where(rows, column, value) ==
    LET match(r) == r[column] = value
    IN  SelectSeq(rows, match)

\* chartConfig: {}
EmptyObject == <<>>

\* orderBy created_at asc, limit 1: the row of the oldest version
orderByCreatedAtAsc(joined) ==
    CHOOSE r \in joined : \A o \in joined : r[2].created_at <= o[2].created_at

\* orderBy('saved_queries_versions.created_at', 'desc').limit(1): the row of
\* the newest version
orderByCreatedAtDesc(joined) ==
    CHOOSE r \in joined : \A o \in joined : o[2].created_at <= r[2].created_at

\* getSavedQueryByUuid: the saved query joined with its versions, newest
\* version first, limit 1; then that version's fields and sorts
getSavedQueryByUuid(d, savedQueryUuid) ==
    LET queries == Where(d.saved_queries, "saved_query_uuid", savedQueryUuid)
        joined == {<<q, v>> \in Range(queries) \X Range(d.saved_queries_versions) :
                      v.saved_query_id = q.saved_query_id}
    IN  IF joined = {} THEN [ok |-> FALSE, error |-> "NotFoundError"]
        ELSE LET first == orderByCreatedAtDesc(joined)
                 savedQuery == first[1]
                 version == first[2]
                 fields == Where(d.saved_queries_version_fields,
                                 "saved_queries_version_id", version.saved_queries_version_id)
                 sorts == Where(d.saved_queries_version_sorts,
                                "saved_queries_version_id", version.saved_queries_version_id)
                 isDim(f) == f.isDimension
                 isMetric(f) == ~f.isDimension
                 dimensions == SelectSeq(fields, isDim)
                 metrics == SelectSeq(fields, isMetric)
             IN  [ok |-> TRUE,
                  value |->
                    [uuid |-> savedQuery.saved_query_uuid,
                     name |-> savedQuery.name,
                     tableName |-> version.explore_name,
                     metricQuery |->
                        [dimensions |-> [i \in 1..Len(dimensions) |-> dimensions[i].name],
                         metrics |-> [i \in 1..Len(metrics) |-> metrics[i].name],
                         filters |-> JSONParse(version.filters),
                         sorts |-> [i \in 1..Len(sorts) |->
                                      [fieldId |-> sorts[i].field_name,
                                       descending |-> sorts[i].descending]],
                         limit |-> version.row_limit],
                     chartConfig |-> EmptyObject]]

\* A rolled back transaction: the tables as before, the serial counters as
\* the statements left them
Rollback(before, after) == [before EXCEPT !.serial = after.serial]

\* The end of a transaction: time has passed
Tick(d) == [d EXCEPT !.now = @ + 1]

\* createSavedQuery: the saved query row and its first version in a
\* transaction, then the read of what was saved; [db, ret]
createSavedQuery(d, data) ==
    LET inserted == Insert(d, "saved_queries", [name |-> data.name, space_id |-> 1])
        \* the column's default, uuid_generate_v4(): a uuid no other row has
        newSavedQuery == inserted.row @@ ("saved_query_uuid" :> inserted.row.saved_query_id)
        withUuid == [inserted.db EXCEPT !.saved_queries =
                        [@ EXCEPT ![Len(@)] = newSavedQuery]]
        version == createSavedQueryVersion(withUuid, newSavedQuery.saved_query_id, data)
    IN  IF version.ok
        THEN [db |-> Tick(version.db),
              ret |-> getSavedQueryByUuid(Tick(version.db), newSavedQuery.saved_query_uuid)]
        ELSE [db |-> Tick(Rollback(d, version.db)),
              ret |-> [ok |-> FALSE, error |-> "DatabaseError"]]

\* addSavedQueryVersion: a new version of the saved query of that uuid in a
\* transaction, then the read of what was saved; [db, ret]
addSavedQueryVersion(d, savedQueryUuid, data) ==
    LET savedQuery == Where(d.saved_queries, "saved_query_uuid", savedQueryUuid)
    IN  IF savedQuery = <<>>
        THEN \* savedQuery[0].saved_query_id of an empty result
             [db |-> d, ret |-> [ok |-> FALSE, error |-> "TypeError"]]
        ELSE LET version == createSavedQueryVersion(d, savedQuery[1].saved_query_id, data)
             IN  IF version.ok
                 THEN [db |-> Tick(version.db),
                       ret |-> getSavedQueryByUuid(Tick(version.db), savedQueryUuid)]
                 ELSE [db |-> Tick(Rollback(d, version.db)),
                       ret |-> [ok |-> FALSE, error |-> "DatabaseError"]]

\* The saved queries a client posts: JSON values
ChartConfigValues == {EmptyObject, <<[key |-> "seriesLayout", value |-> "a_b"]>>}

\* Two metric queries with their explores, different in every part but the sorts
QueryProfiles ==
    {[tableName |-> "a", dimensions |-> <<"a_b">>, metrics |-> <<>>,
      filters |-> <<>>, limit |-> 500],
     [tableName |-> "b", dimensions |-> <<"a_c", "a_b">>, metrics |-> <<"a_n">>,
      filters |-> CHOOSE f \in FilterValues : f # <<>>, limit |-> 10]}

SavedQueryInputs ==
    {[name |-> "q",
      tableName |-> p.tableName,
      metricQuery |-> [dimensions |-> p.dimensions, metrics |-> p.metrics,
                       filters |-> p.filters, sorts |-> sorts, limit |-> p.limit],
      chartConfig |-> chartConfig] :
        p \in QueryProfiles,
        sorts \in {<<>>, <<[fieldId |-> "a_b", descending |-> TRUE]>>},
        chartConfig \in ChartConfigValues}

NoDbCall == [op |-> "none"]

CreateSavedQuery ==
    /\ db.serial["saved_queries_versions"] < MaxVersions
    /\ \E data \in SavedQueryInputs :
          LET r == createSavedQuery(db, data)
          IN  /\ db' = r.db
              /\ dbCall' = [op |-> "createSavedQuery", data |-> data, ret |-> r.ret]
    /\ UNCHANGED <<call, state, queryRun, form, dbt, pristineState, proc>>

AddSavedQueryVersion ==
    /\ db.serial["saved_queries_versions"] < MaxVersions
    /\ \E uuid \in 1..MaxVersions, data \in SavedQueryInputs :
          LET r == addSavedQueryVersion(db, uuid, data)
          IN  /\ db' = r.db
              /\ dbCall' = [op |-> "addSavedQueryVersion", uuid |-> uuid,
                            data |-> data, ret |-> r.ret]
    /\ UNCHANGED <<call, state, queryRun, form, dbt, pristineState, proc>>

(***************************************************************************)
(* frontend: StringFilterGroupForm and StringFilterForm.  The filters of   *)
(* the group are objects: a filter is either one of the objects of the     *)
(* module's table defaultValuesForNewStringFilter ([ref |-> operator], the *)
(* object itself, not a copy) or an object of its own ([object |-> ...]).  *)
(* Each handler builds a new filter group and hands it to onChange; the    *)
(* parent renders the form again with it.                                  *)
(***************************************************************************)
MaxFilters == 2     \* most filters in the group of the form
MaxValues == 2      \* most values of an equals or notEquals filter

\* The values typed into the form
FormValues == {"v", "w"}

defaultValuesForNewStringFilter ==
    [operator \in {"equals", "notEquals", "startsWith", "isNull", "notNull"} |->
        CASE operator = "equals" -> [operator |-> "equals", values |-> <<>>]
          [] operator = "notEquals" -> [operator |-> "notEquals", values |-> <<>>]
          [] operator = "startsWith" -> [operator |-> "startsWith", value |-> ""]
          [] operator = "isNull" -> [operator |-> "isNull"]
          [] operator = "notNull" -> [operator |-> "notNull"]]

\* The operators of the select
options == {"isNull", "startsWith", "notNull", "equals", "notEquals"}

\* defaultNewFilter = defaultValuesForNewStringFilter['equals'], the object
defaultNewFilter == [ref |-> "equals"]

\* The object a filter of the group is, given the table's objects
FilterObject(defaults, filter) ==
    IF "ref" \in DOMAIN filter THEN defaults[filter.ref] ELSE filter.object

\* [...filters.slice(0, index), filter, ...filters.slice(index + 1)]
ReplaceAt(filters, index, filter) == [filters EXCEPT ![index] = filter]

\* FilterRow onAdd: {...filterGroup, filters: [...filterGroup.filters, defaultNewFilter]}
onAdd(f) ==
    [f EXCEPT !.filterGroup.filters = Append(@, defaultNewFilter)]

\* FilterRow onDelete: the filters without the one at index
onDelete(f, index) ==
    [f EXCEPT !.filterGroup.filters = RemoveAt(@, index)]

\* SelectFilterOperator onChange: the filter at index becomes the table's
\* object of the operator
onChangeOperator(f, index, operator) ==
    [f EXCEPT !.filterGroup.filters = ReplaceAt(@, index, [ref |-> operator])]

\* A mutant of TagInput onAdd: the values are pushed onto the filter's own array
onAddValuesInPlace(f, index, values) ==
    LET filter == f.filterGroup.filters[index]
    IN  IF "ref" \in DOMAIN filter
        THEN [f EXCEPT !.defaults[filter.ref].values = @ \o values]
        ELSE [f EXCEPT !.filterGroup.filters[index].object.values = @ \o values]

\* TagInput onAdd: {...filter, values: [...filter.values, ...values]}
onAddValues(f, index, values) ==
    LET filter == FilterObject(f.defaults, f.filterGroup.filters[index])
    IN  [f EXCEPT !.filterGroup.filters =
            ReplaceAt(@, index, [object |-> [filter EXCEPT !.values = @ \o values]])]

\* TagInput onRemove: {...filter, values: the values without the one at i}
onRemoveValue(f, index, i) ==
    LET filter == FilterObject(f.defaults, f.filterGroup.filters[index])
    IN  [f EXCEPT !.filterGroup.filters =
            ReplaceAt(@, index, [object |-> [filter EXCEPT !.values = RemoveAt(@, i)]])]

\* InputGroup onChange: {...filter, value: e.currentTarget.value}
onChangeValue(f, index, value) ==
    LET filter == FilterObject(f.defaults, f.filterGroup.filters[index])
    IN  [f EXCEPT !.filterGroup.filters =
            ReplaceAt(@, index, [object |-> [filter EXCEPT !.value = value]])]

\* The form of a group with one new filter, and the table as the module defines it
InitForm ==
    [defaults |-> defaultValuesForNewStringFilter,
     filterGroup |-> [type |-> "string",
                      dimension |-> [type |-> "string", name |-> <<"b">>, table |-> <<"a">>],
                      operator |-> "and",
                      filters |-> <<defaultNewFilter>>]]

\* The operator of the filter at index, as StringFilterForm switches on it
FilterOperatorAt(index) ==
    FilterObject(form.defaults, form.filterGroup.filters[index]).operator

AddFilter ==
    /\ Len(form.filterGroup.filters) \in 1..(MaxFilters - 1)
    /\ form' = onAdd(form)
    /\ UNCHANGED <<call, state, db, dbCall, queryRun, dbt, pristineState, proc>>

DeleteFilter ==
    /\ \E index \in 1..Len(form.filterGroup.filters) : form' = onDelete(form, index)
    /\ UNCHANGED <<call, state, db, dbCall, queryRun, dbt, pristineState, proc>>

ChangeOperator ==
    /\ \E index \in 1..Len(form.filterGroup.filters), operator \in options :
          form' = onChangeOperator(form, index, operator)
    /\ UNCHANGED <<call, state, db, dbCall, queryRun, dbt, pristineState, proc>>

AddValues ==
    /\ \E index \in 1..Len(form.filterGroup.filters) :
          /\ FilterOperatorAt(index) \in {"equals", "notEquals"}
          /\ \E values \in SeqsUpTo(FormValues, MaxValues) :
                /\ values # <<>>
                /\ Len(FilterObject(form.defaults, form.filterGroup.filters[index]).values)
                      + Len(values) <= MaxValues
                /\ form' = onAddValues(form, index, values)
    /\ UNCHANGED <<call, state, db, dbCall, queryRun, dbt, pristineState, proc>>

RemoveValue ==
    /\ \E index \in 1..Len(form.filterGroup.filters) :
          /\ FilterOperatorAt(index) \in {"equals", "notEquals"}
          /\ \E i \in 1..Len(FilterObject(form.defaults, form.filterGroup.filters[index]).values) :
                form' = onRemoveValue(form, index, i)
    /\ UNCHANGED <<call, state, db, dbCall, queryRun, dbt, pristineState, proc>>

ChangeValue ==
    /\ \E index \in 1..Len(form.filterGroup.filters) :
          /\ FilterOperatorAt(index) = "startsWith"
          /\ \E value \in FormValues \cup {""} : form' = onChangeValue(form, index, value)
    /\ UNCHANGED <<call, state, db, dbCall, queryRun, dbt, pristineState, proc>>

(***************************************************************************)
(* backend: DbtChildProcess.  _start spawns the dbt child process and      *)
(* returns a promise that the handlers of the child's exit event and of    *)
(* its stdout data events settle.  A data event carries a chunk of lines;  *)
(* a message is the sequence of its parts, so that startsWith reads the    *)
(* first.  A chunk is handled when the child writes it.                    *)
(***************************************************************************)
MaxChunks == 2      \* most data events of the child's stdout
MaxLines == 2       \* most lines in one chunk

\* The lines dbt writes: json log messages, a line that is not json, an empty line
ReadyLine ==
    [json |-> TRUE, empty |-> FALSE,
     payload |-> [message |-> <<"Send requests to ", "http://localhost:8580/jsonrpc">>,
                  levelname |-> "INFO"]]

InfoLine ==
    [json |-> TRUE, empty |-> FALSE,
     payload |-> [message |-> <<"Serving RPC server at ", "Send requests to ">>,
                  levelname |-> "INFO"]]

ErrorLine ==
    [json |-> TRUE, empty |-> FALSE,
     payload |-> [message |-> <<"Encountered an error">>, levelname |-> "ERROR"]]

WarningLine ==
    [json |-> TRUE, empty |-> FALSE,
     payload |-> [message |-> <<"Deprecated">>, levelname |-> "WARNING"]]

JunkLine == [json |-> FALSE, empty |-> FALSE]

EmptyLine == [json |-> FALSE, empty |-> TRUE]

DbtLines == {ReadyLine, InfoLine, ErrorLine, WarningLine, JunkLine, EmptyLine}

\* String.prototype.startsWith on a message
startsWith(message, prefix) == Len(message) >= 1 /\ message[1] = prefix

\* _storeErrorMessage: the message of an ERROR or WARNING payload goes first,
\* before the first five of the stored ones
storeErrorMessage(errorLogs, payload) ==
    IF payload.levelname \in {"ERROR", "WARNING"}
    THEN <<payload.message>> \o SubSeq(errorLogs, 1, IF Len(errorLogs) < 5 THEN Len(errorLogs) ELSE 5)
    ELSE errorLogs

\* _logMessageShowsServerReady
logMessageShowsServerReady(payload) == startsWith(payload.message, "Send requests to ")

\* A promise not yet created, pending, and settled
NoPromise == [status |-> "none"]

PendingPromise == [status |-> "pending"]

\* resolve() and reject(error) settle a pending promise and leave a settled one alone
resolve(promise) ==
    IF promise.status = "pending" THEN [status |-> "resolved"] ELSE promise

reject(promise, error) ==
    IF promise.status = "pending" THEN [status |-> "rejected", error |-> error] ELSE promise

\* latestErrorMessage, in a DbtError
DbtExitError(errorLogs) ==
    [name |-> "DbtError", message |-> "Dbt server exited with an error:", logs |-> errorLogs]

DbtParseError ==
    [name |-> "DbtError", message |-> "Cannot parse message from dbt:", logs |-> <<>>]

RECURSIVE ReduceMessages(_, _, _)
\* nonEmptyMessages.reduce: each message is parsed, its error stored, and the
\* result is whether this message shows the server ready; JSON.parse throws
\* on a line that is not json
ReduceMessages(messages, errorLogs, isReady) ==
    IF messages = <<>> THEN [threw |-> FALSE, errorLogs |-> errorLogs, isReady |-> isReady]
    ELSE IF ~Head(messages).json
         THEN [threw |-> TRUE, errorLogs |-> errorLogs, isReady |-> isReady]
         ELSE ReduceMessages(Tail(messages),
                             storeErrorMessage(errorLogs, Head(messages).payload),
                             logMessageShowsServerReady(Head(messages).payload))

\* The handler of stdout's data event
onStdoutData(d, chunk) ==
    LET isNonEmpty(line) == ~line.empty
        nonEmptyMessages == SelectSeq(chunk, isNonEmpty)
        reduced == ReduceMessages(nonEmptyMessages, d.errorLogs, FALSE)
    IN  [d EXCEPT !.errorLogs = reduced.errorLogs,
                  !.start = IF reduced.threw THEN reject(@, DbtParseError)
                            ELSE IF reduced.isReady THEN resolve(@)
                            ELSE @]

\* The handler of the child's exit event
onExit(d) ==
    [d EXCEPT !.dbtChildProcess = Undefined,
              !.start = reject(@, DbtExitError(d.errorLogs))]

\* isProcessLive
isProcessLive(d) == d.dbtChildProcess # Undefined

\* A DbtChildProcess after its constructor: no child yet.  child is the dbt
\* process itself, readyEmitted and chunks record what it has written
InitDbt ==
    [dbtChildProcess |-> Undefined,
     errorLogs |-> <<>>,
     start |-> NoPromise,
     child |-> "none",
     readyEmitted |-> FALSE,
     chunks |-> 0]

\* _start(): the error logs are emptied, the child is spawned, the promise is pending
Start ==
    /\ dbt.child = "none"
    /\ dbt' = [dbt EXCEPT !.errorLogs = <<>>,
                          !.dbtChildProcess = [pid |-> 1],
                          !.start = PendingPromise,
                          !.child = "running"]
    /\ UNCHANGED <<call, state, db, dbCall, queryRun, form, pristineState, proc>>

\* The child writes a chunk of lines to its stdout
StdoutData ==
    /\ dbt.child = "running"
    /\ dbt.chunks < MaxChunks
    /\ \E chunk \in SeqsUpTo(DbtLines, MaxLines) :
          /\ chunk # <<>>
          /\ dbt' = [onStdoutData(dbt, chunk) EXCEPT
                        !.chunks = @ + 1,
                        !.readyEmitted = @ \/ \E i \in 1..Len(chunk) : chunk[i] = ReadyLine]
    /\ UNCHANGED <<call, state, db, dbCall, queryRun, form, pristineState, proc>>

\* The child exits
Exit ==
    /\ dbt.child = "running"
    /\ dbt' = [onExit(dbt) EXCEPT !.child = "exited"]
    /\ UNCHANGED <<call, state, db, dbCall, queryRun, form, pristineState, proc>>

(***************************************************************************)
(* backend: kill() and restart() of DbtChildProcess.  A step is one task of *)
(* the event loop with the promise jobs it queues: a call runs up to its    *)
(* first await on a pending promise, an exit event runs the listeners of    *)
(* the child in the order of their registration, then the continuations of  *)
(* the calls they resolved, those of kill() before those of restart().      *)
(***************************************************************************)
MaxCalls == 4       \* most calls of kill() and restart()
MaxChildren == 3    \* most child processes spawned, one by restart() at most

\* A DbtChildProcess after its constructor: children holds the processes
\* spawned, by pid; termed those sent TERM; calls the calls made so far, each
\* with the child it found tracked and the child it has spawned
InitProc ==
    [dbtChildProcess |-> Undefined,
     children |-> <<>>,
     termed |-> {},
     calls |-> <<>>]

\* kill() that does not wait for the exit event
killWithoutWaiting(p, op) ==
    [p EXCEPT !.termed = IF isProcessLive(p) THEN @ \cup {p.dbtChildProcess.pid} ELSE @,
              !.calls = Append(@, [op |-> op,
                                   tracked |-> p.dbtChildProcess,
                                   killed |-> TRUE,
                                   live |-> isProcessLive(p),
                                   spawned |-> Undefined])]

\* kill(), up to its await: with no child tracked waitForKill is resolved at
\* once, and isProcessLive() is what the continuation then sees; else a
\* listener of the tracked child's exit is registered and TERM is sent
kill(p, op) ==
    IF p.dbtChildProcess = Undefined
    THEN [p EXCEPT !.calls = Append(@, [op |-> op,
                                        tracked |-> Undefined,
                                        killed |-> TRUE,
                                        live |-> isProcessLive(p),
                                        spawned |-> Undefined])]
    ELSE [p EXCEPT !.termed = @ \cup {p.dbtChildProcess.pid},
                   !.calls = Append(@, [op |-> op,
                                        tracked |-> p.dbtChildProcess,
                                        killed |-> FALSE,
                                        live |-> FALSE,
                                        spawned |-> Undefined])]

\* _start() of call i: the child is spawned and becomes the tracked one
spawn(p, i) ==
    LET pid == Len(p.children) + 1
    IN  [p EXCEPT !.children = Append(@, "running"),
                  !.dbtChildProcess = [pid |-> pid],
                  !.calls[i].spawned = [pid |-> pid]]

\* restart(): await this.kill(), then this._start()
restart(p) ==
    LET killing == kill(p, "restart")
        i == Len(killing.calls)
    IN  IF killing.calls[i].killed THEN spawn(killing, i) ELSE killing

\* The listener _start() registered on the child: the tracked child is forgotten
onChildExit(p, pid) ==
    [p EXCEPT !.children[pid] = "exited",
              !.dbtChildProcess = Undefined]

\* The listeners kill() registered on the child, then the continuations of
\* these kill(): each sees isProcessLive() as it is then
resolveKills(p, pid) ==
    [p EXCEPT !.calls =
        [i \in 1..Len(p.calls) |->
            IF p.calls[i].tracked = [pid |-> pid] /\ ~p.calls[i].killed
            THEN [p.calls[i] EXCEPT !.killed = TRUE, !.live = isProcessLive(p)]
            ELSE p.calls[i]]]

RECURSIVE continueRestarts(_, _, _)
\* The continuations of the restart() that awaited the kill of the child, in
\* the order of the calls, from call i on: each goes on to _start()
continueRestarts(p, pid, i) ==
    IF i > Len(p.calls) THEN p
    ELSE IF /\ p.calls[i].op = "restart"
            /\ p.calls[i].tracked = [pid |-> pid]
            /\ p.calls[i].spawned = Undefined
         THEN continueRestarts(spawn(p, i), pid, i + 1)
         ELSE continueRestarts(p, pid, i + 1)

\* A call of kill()
KillCall ==
    /\ Len(proc.calls) < MaxCalls
    /\ proc' = kill(proc, "kill")
    /\ UNCHANGED <<call, state, pristineState, db, dbCall, queryRun, form, dbt>>

\* A call of restart()
RestartCall ==
    /\ Len(proc.calls) < MaxCalls
    /\ Cardinality({i \in 1..Len(proc.calls) : proc.calls[i].op = "restart"}) < MaxChildren
    /\ proc' = restart(proc)
    /\ UNCHANGED <<call, state, pristineState, db, dbCall, queryRun, form, dbt>>

\* The exit event of a child, after TERM or of its own
ChildExit ==
    /\ \E pid \in 1..Len(proc.children) :
          /\ proc.children[pid] = "running"
          /\ proc' = continueRestarts(resolveKills(onChildExit(proc, pid), pid), pid, 1)
    /\ UNCHANGED <<call, state, pristineState, db, dbCall, queryRun, form, dbt>>

(***************************************************************************)
(* Specifications: the calls of packages/common and of the compiler, the   *)
(* explorer's reducer, the provider with the fetch of its query, the saved *)
(* queries, the filter form, the start of the dbt child process and its    *)
(* kill() and restart(), each from the state after construction.           *)
(***************************************************************************)
InitCommon ==
    /\ call \in Calls
    /\ state = defaultState
    /\ pristineState = defaultState
    /\ db = EmptyDb
    /\ dbCall = NoDbCall
    /\ queryRun = NoQueryRun
    /\ form = InitForm
    /\ dbt = InitDbt
    /\ proc = InitProc

NextCommon ==
    \/ CallFieldId
    \/ CallIsDimension
    \/ CallFilterableDimensionsOnly
    \/ CallMapColumnType
    \/ CallGetDimensions
    \/ CallGetMeasures
    \/ CallGetFields
    \/ CallConstructExplore
    \/ CallCompileQuery

SpecCommon == InitCommon /\ [][NextCommon]_vars

NoCall == [op |-> "none", done |-> TRUE]

Init ==
    /\ call = NoCall
    /\ state = defaultState
    /\ pristineState = defaultState
    /\ db = EmptyDb
    /\ dbCall = NoDbCall
    /\ queryRun = NoQueryRun
    /\ form = InitForm
    /\ dbt = InitDbt
    /\ proc = InitProc

NextExplorer ==
    \/ Reset
    \/ SetState
    \/ SetTableName
    \/ ToggleDimension
    \/ ToggleMetric
    \/ ToggleSortField
    \/ SetSortFields
    \/ SetRowLimit
    \/ SetFilters
    \/ SetColumnOrder

\* The working reducer under every sequence of its actions
SpecExplorer == Init /\ [][NextExplorer]_vars

NextProvider ==
    \/ ProviderSetState
    \/ Reset
    \/ ToggleDimension
    \/ ToggleMetric
    \/ SetFilters
    \/ RunQuery
    \/ FetchSuccess
    \/ FetchError

\* The provider with its two reducers, and the fetch of the Run query button
SpecProvider == Init /\ [][NextProvider]_vars

NextSavedQueries ==
    \/ CreateSavedQuery
    \/ AddSavedQueryVersion

SpecSavedQueries == Init /\ [][NextSavedQueries]_vars

NextFilterForm ==
    \/ AddFilter
    \/ DeleteFilter
    \/ ChangeOperator
    \/ AddValues
    \/ RemoveValue
    \/ ChangeValue

SpecFilterForm == Init /\ [][NextFilterForm]_vars

NextDbt ==
    \/ Start
    \/ StdoutData
    \/ Exit

SpecDbt == Init /\ [][NextDbt]_vars

NextDbtRestart ==
    \/ KillCall
    \/ RestartCall
    \/ ChildExit

SpecDbtRestart == Init /\ [][NextDbtRestart]_vars

(***************************************************************************)
(* Properties of packages/common (checked under SpecCommon).               *)
(***************************************************************************)
Returned(op) == call.op = op /\ call.done

\* C1: fieldId is injective: two fields whose (table, name) pairs differ get
\* different ids, for sql friendly table and field names.
FieldIdInjective ==
    Returned("fieldId") =>
        LET f == call.arg[1]
            g == call.arg[2]
        IN  <<f.table, f.name>> # <<g.table, g.name>> => call.ret[1] # call.ret[2]

\* The places of an explore's fields: <<table index, "dimensions" or "measures", index>>
FieldPlaces(explore) ==
    {<<i, kind, j>> \in (1..Len(explore.tables)) \X {"dimensions", "measures"} \X (1..4) :
        j <= Len(explore.tables[i].value[kind])}

FieldAt(explore, place) == explore.tables[place[1]].value[place[2]][place[3]].value

\* Two fields of the explore, at different places, have the same fieldId
HasFieldIdCollision(explore) ==
    \E p, q \in FieldPlaces(explore) :
        p # q /\ fieldId(FieldAt(explore, p)) = fieldId(FieldAt(explore, q))

\* C2: constructing an explore in which two fields have the same fieldId fails
\* with DuplicateFieldIdError, and no explore with such a collision is accepted.
ExploreCollisionRejected ==
    Returned("constructExplore") =>
        /\ HasFieldIdCollision(call.arg) =>
              ~call.ret.ok /\ call.ret.error = "DuplicateFieldIdError"
        /\ call.ret.ok => ~HasFieldIdCollision(call.arg)

\* C2's case: an explore whose tables a and a_ hold the fields _b and b, of
\* different (table, name) and one id, was rejected, the second field reported
ExploreCollisionRejectedWitness ==
    /\ Returned("constructExplore")
    /\ Len(call.arg.tables) = 2
    /\ \E p, q \in FieldPlaces(call.arg) :
          /\ p[1] # q[1]
          /\ fieldId(FieldAt(call.arg, p)) = fieldId(FieldAt(call.arg, q))
    /\ ~call.ret.ok
    /\ call.ret.error = "DuplicateFieldIdError"
    /\ call.ret.name \in ExploreFieldNames

\* C3: mapColumnTypeToLightdashType is total: every string maps to a dimension
\* type, and a string that is no key of the table maps to string.
MapColumnTypeTotal ==
    Returned("mapColumnTypeToLightdashType") =>
        /\ call.ret \in DimensionTypes
        /\ call.arg \notin DOMAIN lightdashTypeMap => call.ret = "string"

\* C4: the lookup is case-insensitive: a column type maps to what every other
\* spelling of it in another letter case maps to.
MapColumnTypeCaseInsensitive ==
    Returned("mapColumnTypeToLightdashType") =>
        \A other \in ColumnTypes :
            toUpperCase(other) = toUpperCase(call.arg) =>
                mapColumnTypeToLightdashType(other) = call.ret

Filterable(dimension) == dimension.type \in {"string", "number"}

\* How many of the first i dimensions are filterable
FilterableAmong(dimensions, i) == Cardinality({j \in 1..i : Filterable(dimensions[j])})

\* C5: filterableDimensionsOnly returns exactly the string and number dimensions
\* of its input, in their order: the k-th filterable dimension of the input is
\* the k-th of the result, the result holds nothing more, and no timestamp, date
\* or boolean dimension.
FilterableDimensionsExact ==
    Returned("filterableDimensionsOnly") =>
        LET dimensions == call.arg
            ret == call.ret
        IN  /\ Len(ret) = FilterableAmong(dimensions, Len(dimensions))
            /\ \A i \in 1..Len(dimensions) :
                  Filterable(dimensions[i]) =>
                      /\ FilterableAmong(dimensions, i) <= Len(ret)
                      /\ ret[FilterableAmong(dimensions, i)] = dimensions[i]
            /\ \A k \in 1..Len(ret) : ret[k].type \notin {"timestamp", "date", "boolean"}

\* C5's case: a list with two filterable dimensions around one that is not
FilterableDimensionsWitness ==
    /\ Returned("filterableDimensionsOnly")
    /\ Len(call.arg) = 3
    /\ call.arg[1].type = "number"
    /\ call.arg[2].type = "boolean"
    /\ call.arg[3].type = "string"
    /\ call.ret = <<call.arg[1], call.arg[3]>>

\* C6: isDimension classifies the type tag exhaustively: true for the five
\* dimension types, false for the six measure types, and for any other tag it
\* throws and returns nothing.
IsDimensionExhaustive ==
    Returned("isDimension") =>
        /\ call.arg.type \in {"number", "string", "boolean", "date", "timestamp"} =>
              call.ret = [threw |-> FALSE, value |-> TRUE]
        /\ call.arg.type \in {"average", "sum", "min", "max", "count", "count_distinct"} =>
              call.ret = [threw |-> FALSE, value |-> FALSE]
        /\ call.arg.type \notin {"number", "string", "boolean", "date", "timestamp",
                                 "average", "sum", "min", "max", "count", "count_distinct"} =>
              call.ret.threw

\* C6's case: a tag outside the closed set made isDimension throw
IsDimensionWitness ==
    /\ Returned("isDimension")
    /\ call.arg.type = "percentile"
    /\ call.ret.threw

\* The dimensions and the measures an explore holds, read off its tables
DimensionsIn(explore) ==
    {FieldAt(explore, p) : p \in {q \in FieldPlaces(explore) : q[2] = "dimensions"}}

MeasuresIn(explore) ==
    {FieldAt(explore, p) : p \in {q \in FieldPlaces(explore) : q[2] = "measures"}}

\* The sequence holds exactly the elements of the set, each once
HoldsEachOnce(seq, set) == Range(seq) = set /\ Len(seq) = Cardinality(set)

\* C7: getDimensions returns every dimension of every table of the explore and
\* nothing else, getMeasures every measure and nothing else, getFields the
\* union of the two, each field once.  (The explore is call.arg before and
\* after: the getters assign nothing.)
GettersExact ==
    /\ Returned("getDimensions") => HoldsEachOnce(call.ret, DimensionsIn(call.arg))
    /\ Returned("getMeasures") => HoldsEachOnce(call.ret, MeasuresIn(call.arg))
    /\ Returned("getFields") =>
          HoldsEachOnce(call.ret, DimensionsIn(call.arg) \cup MeasuresIn(call.arg))

\* C7's case: getFields on an explore of two tables with dimensions and measures
GettersWitness ==
    /\ Returned("getFields")
    /\ Len(call.arg.tables) = 2
    /\ Cardinality(DimensionsIn(call.arg)) = 3
    /\ Cardinality(MeasuresIn(call.arg)) = 2
    /\ Len(call.ret) = 5

(***************************************************************************)
(* Properties of the query compiler (checked under SpecCommon).            *)
(***************************************************************************)
\* The fields of the compiled explore, read off its tables
KnownFields(q) == DimensionsIn(q.explore) \cup MeasuresIn(q.explore)

\* The fields the query selects, read off the query
Selected(q) ==
    {q.dimensions[i] : i \in 1..Len(q.dimensions)} \cup {q.measures[i] : i \in 1..Len(q.measures)}

\* The query refers to fields of the explore only, and its limit is positive
FieldsKnownAndLimitPositive(q) ==
    /\ Selected(q) \subseteq KnownFields(q)
    /\ \A i \in 1..Len(q.filters) : q.filters[i].dimension \in KnownFields(q)
    /\ \A i \in 1..Len(q.sorts) : q.sorts[i].field \in KnownFields(q)
    /\ q.limit > 0

\* Every sort field of the query is selected
SortsSelected(q) == \A i \in 1..Len(q.sorts) : q.sorts[i].field \in Selected(q)

\* The tables the explore declares as base table or join
Joined(explore) ==
    {explore.baseTable} \cup {explore.joinedTables[i].table : i \in 1..Len(explore.joinedTables)}

UnjoinedDimensions(q) ==
    {d \in {q.dimensions[i] : i \in 1..Len(q.dimensions)} : d.table \notin Joined(q.explore)}

ClausesOfKind(sql, kind) == {k \in 1..Len(sql) : sql[k].kind = kind}

\* The position of a table among the declared joins
JoinIndex(explore, t) ==
    CHOOSE j \in 1..Len(explore.joinedTables) : explore.joinedTables[j].table = t

\* The tables of the fields the query selects, filters on or sorts by
TablesUsed(q) ==
    {f.table : f \in Selected(q)}
        \cup {q.filters[i].dimension.table : i \in 1..Len(q.filters)}
        \cup {q.sorts[i].field.table : i \in 1..Len(q.sorts)}

\* C16: the compiled sql has a LEFT JOIN for exactly the joinedTables that a
\* selected field, a filter dimension or a sort field refers to, one each,
\* never for another table, in the declared order of joinedTables.
JoinsExactlyReferenced ==
    (Returned("compileQuery") /\ call.ret.ok) =>
        LET q == call.arg
            sql == call.ret.sql
            joins == ClausesOfKind(sql, "LEFT JOIN")
        IN  /\ \A j \in 1..Len(q.explore.joinedTables) :
                  LET t == q.explore.joinedTables[j].table
                  IN  (t \in TablesUsed(q)) <=> (\E k \in joins : sql[k].as = t)
            /\ \A k \in joins :
                  \E j \in 1..Len(q.explore.joinedTables) :
                      /\ q.explore.joinedTables[j].table = sql[k].as
                      /\ q.explore.joinedTables[j].sqlOn = sql[k].on
            /\ \A k1, k2 \in joins :
                  k1 < k2 => JoinIndex(q.explore, sql[k1].as) < JoinIndex(q.explore, sql[k2].as)

\* C16's case: p is selected before o, c is only filtered on: the joins are c
\* then p
JoinsExactlyReferencedWitness ==
    /\ Returned("compileQuery")
    /\ call.ret.ok
    /\ Len(call.arg.dimensions) = 2
    /\ call.arg.dimensions[1].table = <<"p">>
    /\ call.arg.dimensions[2].table = <<"o">>
    /\ call.arg.sorts = <<>>
    /\ \E i \in 1..Len(call.arg.filters) : call.arg.filters[i].dimension.table = <<"c">>
    /\ call.ret.sql[3].kind = "LEFT JOIN" /\ call.ret.sql[3].as = <<"c">>
    /\ call.ret.sql[4].kind = "LEFT JOIN" /\ call.ret.sql[4].as = <<"p">>
    /\ call.ret.sql[5].kind = "WHERE"

\* C17: the compiled sql has a GROUP BY clause, over every selected
\* dimension, exactly when a measure is selected; a dimension-only query has
\* none.
GroupByExactlyWithMeasure ==
    (Returned("compileQuery") /\ call.ret.ok) =>
        LET q == call.arg
            sql == call.ret.sql
            groups == ClausesOfKind(sql, "GROUP BY")
        IN  /\ (groups # {}) <=> (q.measures # <<>>)
            /\ Cardinality(groups) <= 1
            /\ \A k \in groups :
                  sql[k].items = [i \in 1..Len(q.dimensions) |-> fieldId(q.dimensions[i])]

\* C17's case: a query of two dimensions and a measure is grouped by the two
GroupByExactlyWithMeasureWitness ==
    /\ Returned("compileQuery")
    /\ call.ret.ok
    /\ Len(call.arg.dimensions) = 2
    /\ call.arg.measures # <<>>
    /\ \E k \in ClausesOfKind(call.ret.sql, "GROUP BY") : Len(call.ret.sql[k].items) = 2

\* The values of a row's column: two strings, and sql's NULL
NullValue == "NULL"

RowValues == {"v", "w", NullValue}

\* Whether a row whose column has the value satisfies the clause
ClauseHolds(clause, value) ==
    CASE clause.shape = "FALSE" -> FALSE
      [] clause.shape = "TRUE" -> TRUE
      [] clause.shape = "IN" ->
            value # NullValue /\ \E i \in 1..Len(clause.values) : clause.values[i] = value
      [] clause.shape = "NOT IN" ->
            value # NullValue /\ \A i \in 1..Len(clause.values) : clause.values[i] # value
      [] clause.shape = "LIKE" ->
            value # NullValue /\ (clause.value = "" \/ clause.value = value)
      [] clause.shape = "IS NULL" -> value = NullValue
      [] clause.shape = "IS NOT NULL" -> value # NullValue

\* C18: an equals filter of no value is compiled to a clause no row
\* satisfies, a notEquals filter of no value to a clause every row satisfies,
\* each at the filter's place in its group: no clause is left out.  The
\* filters the form creates for equals and notEquals are of this kind.
EmptyValuesFilterRendered ==
    /\ defaultValuesForNewStringFilter["equals"] = [operator |-> "equals", values |-> <<>>]
    /\ defaultValuesForNewStringFilter["notEquals"] = [operator |-> "notEquals", values |-> <<>>]
    /\ (Returned("compileQuery") /\ call.ret.ok /\ call.arg.filters # <<>>) =>
          LET q == call.arg
              sql == call.ret.sql
          IN  /\ Cardinality(ClausesOfKind(sql, "WHERE")) = 1
              /\ \A k \in ClausesOfKind(sql, "WHERE") :
                    /\ Len(sql[k].groups) = Len(q.filters)
                    /\ \A i \in 1..Len(q.filters) :
                          /\ Len(sql[k].groups[i].clauses) = Len(q.filters[i].filters)
                          /\ \A j \in 1..Len(q.filters[i].filters) :
                                LET filter == q.filters[i].filters[j]
                                    clause == sql[k].groups[i].clauses[j]
                                IN  /\ (filter.operator = "equals" /\ filter.values = <<>>) =>
                                          \A value \in RowValues : ~ClauseHolds(clause, value)
                                    /\ (filter.operator = "notEquals" /\ filter.values = <<>>) =>
                                          \A value \in RowValues : ClauseHolds(clause, value)

\* C18's case: a compiled query with both groups, whose first filters are
\* equals and notEquals of no value
EmptyValuesFilterRenderedWitness ==
    /\ Returned("compileQuery")
    /\ call.ret.ok
    /\ Len(call.arg.filters) = 2
    /\ call.arg.filters[1].filters[1] = [operator |-> "equals", values |-> <<>>]
    /\ call.arg.filters[2].filters[1] = [operator |-> "notEquals", values |-> <<>>]
    /\ \E k \in ClausesOfKind(call.ret.sql, "WHERE") :
          Len(call.ret.sql[k].groups[2].clauses) = 3

(***************************************************************************)
(* Properties of the explorer's reducer (checked under SpecExplorer).      *)
(***************************************************************************)
\* C8: in every reachable state of the reducer every sort entry refers to an
\* active field (one among dimensions or metrics).
SortsReferToActiveFields ==
    \A i \in 1..Len(state.sorts) : state.sorts[i].fieldId \in activeFields(state)

\* C9: every MetricQuery built from the explorer state has limit > 0, whatever
\* number setRowLimit was called with.
MetricQueryLimitPositive == NumGreater(metricQuery(state).limit, Num(0))

\* C25: in every reachable state of the explorer reducer columnOrder holds
\* every active field id exactly once and no inactive id.
ColumnOrderIsActiveFieldsOnce ==
    /\ Range(state.columnOrder) = activeFields(state)
    /\ Len(state.columnOrder) = Cardinality(activeFields(state))

\* C27: toggleSortField cycles.  On an active field without a sort entry the
\* first toggle appends an ascending entry at the end, the second makes that
\* entry descending where it is, the third removes it, so that three toggles
\* give the original state back; entries of other fields keep their values and
\* order; on an inactive field the toggle leaves the whole state unchanged.
ToggleSortFieldCycles ==
    \A f \in FieldIds :
        LET toggle(s) == reducer(s, [type |-> "TOGGLE_SORT_FIELD", payload |-> f])
            s1 == toggle(state)
            s2 == toggle(s1)
            s3 == toggle(s2)
            sorted == \E i \in 1..Len(state.sorts) : state.sorts[i].fieldId = f
        IN  /\ f \notin activeFields(state) => s1 = state
            /\ (f \in activeFields(state) /\ ~sorted) =>
                   /\ s1 = [state EXCEPT !.sorts =
                               Append(state.sorts, [fieldId |-> f, descending |-> FALSE])]
                   /\ s2 = [state EXCEPT !.sorts =
                               Append(state.sorts, [fieldId |-> f, descending |-> TRUE])]
                   /\ s3 = state
            /\ SortsWithout(s1.sorts, f) = SortsWithout(state.sorts, f)

\* C27's case: a_b was toggled twice after a_n was sorted, so that its entry is
\* descending behind the entry of a_n, and a third toggle removes it
ToggleSortFieldCyclesWitness ==
    /\ activeFields(state) = {"a_b", "a_n"}
    /\ state.sorts = <<[fieldId |-> "a_n", descending |-> FALSE],
                       [fieldId |-> "a_b", descending |-> TRUE]>>
    /\ reducer(state, [type |-> "TOGGLE_SORT_FIELD", payload |-> "a_b"]).sorts
           = <<[fieldId |-> "a_n", descending |-> FALSE]>>

(***************************************************************************)
(* Properties of the saved queries (checked under SpecSavedQueries).       *)
(***************************************************************************)
\* C10: after createSavedQuery or addSavedQueryVersion succeeds, the saved
\* query read back has the tableName, dimensions, metrics, filters, sorts,
\* limit and chart configuration that were saved.
SavedQueryRoundTrip ==
    (dbCall.op \in {"createSavedQuery", "addSavedQueryVersion"} /\ dbCall.ret.ok) =>
        /\ dbCall.ret.value.tableName = dbCall.data.tableName
        /\ dbCall.ret.value.metricQuery = dbCall.data.metricQuery
        /\ dbCall.ret.value.chartConfig = dbCall.data.chartConfig

\* The versions of the saved query of a uuid, in the order of their insertion
VersionsOf(savedQueryUuid) ==
    LET queries == Where(db.saved_queries, "saved_query_uuid", savedQueryUuid)
        ofQuery(v) == \E i \in 1..Len(queries) :
                          v.saved_query_id = queries[i].saved_query_id
    IN  SelectSeq(db.saved_queries_versions, ofQuery)

\* The names of the fields of a version that are dimensions, or are not
FieldNamesOf(version, dimension) ==
    LET ofVersion(f) ==
            /\ f.saved_queries_version_id = version.saved_queries_version_id
            /\ f.isDimension = dimension
        fields == SelectSeq(db.saved_queries_version_fields, ofVersion)
    IN  [i \in 1..Len(fields) |-> fields[i].name]

\* C28: getSavedQueryByUuid returns the version created last: the tableName,
\* limit, filters, fields and sorts of the last version added to the saved
\* query, never those of an earlier one; for a uuid with no saved query it
\* throws NotFoundError.
LatestVersionReturned ==
    /\ \A uuid \in 1..(MaxVersions + 1) :
          LET versions == VersionsOf(uuid)
              last == versions[Len(versions)]
              read == getSavedQueryByUuid(db, uuid)
          IN  IF versions = <<>>
              THEN read = [ok |-> FALSE, error |-> "NotFoundError"]
              ELSE /\ read.ok
                   /\ read.value.tableName = last.explore_name
                   /\ read.value.metricQuery.limit = last.row_limit
                   /\ read.value.metricQuery.filters = JSONParse(last.filters)
                   /\ read.value.metricQuery.dimensions = FieldNamesOf(last, TRUE)
                   /\ read.value.metricQuery.metrics = FieldNamesOf(last, FALSE)
    /\ (dbCall.op = "addSavedQueryVersion" /\ dbCall.ret.ok) =>
          LET read == getSavedQueryByUuid(db, dbCall.uuid)
          IN  /\ read.ok
              /\ read.value.tableName = dbCall.data.tableName
              /\ read.value.metricQuery = dbCall.data.metricQuery

\* C28's case: a version was added to a saved query that had another, with
\* another table, and the read gives the one added
LatestVersionReturnedWitness ==
    /\ dbCall.op = "addSavedQueryVersion"
    /\ dbCall.ret.ok
    /\ Len(VersionsOf(dbCall.uuid)) = 2
    /\ VersionsOf(dbCall.uuid)[1].explore_name # dbCall.data.tableName
    /\ getSavedQueryByUuid(db, dbCall.uuid).value.tableName = dbCall.data.tableName
    /\ ~getSavedQueryByUuid(db, MaxVersions + 1).ok

(***************************************************************************)
(* Properties of the filter form (checked under SpecFilterForm).           *)
(***************************************************************************)
\* C19: the table defaultValuesForNewStringFilter is never written: after any
\* edits of the form every entry has its initial value.
DefaultsNeverWritten == form.defaults = defaultValuesForNewStringFilter

\* C19's case: values were added to a filter that was the table's equals
\* object, and the filter added after it is that object
DefaultsNeverWrittenWitness ==
    /\ Len(form.filterGroup.filters) = 2
    /\ form.filterGroup.filters[1] = [object |-> [operator |-> "equals", values |-> <<"v", "w">>]]
    /\ form.filterGroup.filters[2] = [ref |-> "equals"]

(***************************************************************************)
(* Properties of DbtChildProcess (checked under SpecDbt).                  *)
(***************************************************************************)
\* C20: the start promise is resolved once dbt has written a json log message
\* that starts with 'Send requests to ' before exiting, also after a later
\* exit, and it is rejected with a DbtError once the process has exited
\* without having written one.
StartSettlesByFirstEvent ==
    /\ dbt.readyEmitted => dbt.start.status = "resolved"
    /\ (dbt.child = "exited" /\ ~dbt.readyEmitted) =>
          dbt.start.status = "rejected" /\ dbt.start.error.name = "DbtError"

(***************************************************************************)
(* Properties of the explorer's provider (checked under SpecProvider).     *)
(***************************************************************************)
\* C21: once a query has been fetched with success, the pristine state is the
\* explorer state the fetched query was built from, whatever edits were made
\* while the fetch was in flight.
FetchedStateBecomesPristine ==
    [][(queryRun.status = "loading" /\ queryRun'.status = "success") =>
           pristineState' = syncState(pristineState, queryRun.state)]_vars

\* C26: in the context value pristineState.activeFields is the set of the
\* dimensions and metrics of pristineState, and pristineState.isValidQuery is
\* true exactly when that set is not empty.
PristineActiveFieldsArePristine ==
    LET pristine == ContextValue.pristineState
        fields == Range(pristine.dimensions) \cup Range(pristine.metrics)
    IN  /\ pristine.activeFields = fields
        /\ pristine.isValidQuery <=> (fields # {})

\* C11: in every reachable explorer state isValidQuery is true exactly when a
\* dimension or a metric is selected, and no query fetched from the Run query
\* button is empty (the button is disabled while isValidQuery is false).
EmptyQueryNeverRun ==
    /\ isValidQuery(state) <=> (state.dimensions # <<>> \/ state.metrics # <<>>)
    /\ queryRun.ran => (queryRun.dimensions # <<>> \/ queryRun.metrics # <<>>)

\* C11's case: a query of one metric was run, then the metric was deselected:
\* the state holds no field and the button is disabled
EmptyQueryNeverRunWitness ==
    /\ queryRun.ran
    /\ queryRun.dimensions = <<>>
    /\ queryRun.metrics # <<>>
    /\ state.dimensions = <<>>
    /\ state.metrics = <<>>
    /\ ~isValidQuery(state)

(***************************************************************************)
(* Properties of kill() and restart() (checked under SpecDbtRestart).      *)
(***************************************************************************)
\* The children spawned that have not exited
LiveChildren == {pid \in 1..Len(proc.children) : proc.children[pid] = "running"}

\* C22: isProcessLive() is true exactly when a child that was spawned has not
\* exited yet, whatever the interleaving of restart(), kill() and exit events.
IsProcessLiveExact == isProcessLive(proc) <=> (LiveChildren # {})

\* C23: no two child processes are alive at once: restart() spawns a child
\* only after the one before has exited.
AtMostOneChildAlive == Cardinality(LiveChildren) <= 1

====
